---- MODULE Spec2Model ----
(***************************************************************************)
(* A model of the dataset profiling and statistical intelligence engine:   *)
(*   app/services/statistical_engine.py  (outliers, skewness, variability, *)
(*                                         correlations)                   *)
(*   app/services/profiler.py            (analyze_dataset)                 *)
(*   app/services/ai_analyst.py          (calculate_data_confidence)       *)
(*                                                                         *)
(* Numbers.  The code computes in binary floating point; the model         *)
(* computes the same quantities exactly, as integers or as fractions       *)
(* num/den of integers.  Fields that the code rounds are kept in the       *)
(* rounded unit: percentages and 2-decimal values in hundredths,           *)
(* completeness in tenths, IQR bounds in eighths (a quartile of integer    *)
(* data is a multiple of 1/4, a bound a multiple of 1/8).                  *)
(*                                                                         *)
(* A cell of a column is [nan |-> TRUE, v |-> 0] when missing and          *)
(* [nan |-> FALSE, v |-> x] otherwise; for a text column x is an opaque    *)
(* code of the string.  A result field is a tagged value: None (Python     *)
(* None), NaNVal (float nan) or Val(x).                                    *)
(***************************************************************************)
EXTENDS Integers, Sequences, FiniteSets, TLC

VARIABLES
    series,          \* SpecSeries: the column handed to the three detectors
    spc,             \* SpecSeries: position in the calls of lines 130-132
    outliers,        \* SpecSeries: result of detect_outliers_iqr
    skewness,        \* SpecSeries: result of analyze_skewness
    variability,     \* SpecSeries: result of analyze_variability
    skew_val,        \* SpecSkewValue: the float series.skew() returned (line 40)
    df,              \* Spec: the table given to analyze_dataset
    pc,              \* Spec: position inside analyze_dataset
    stats_results,   \* Spec: what run_statistical_analysis returned
    columns_profile, \* Spec: the ColumnProfile records built so far
    alerts,          \* Spec: the alert strings appended so far
    report,          \* Spec: the ProfileReport returned
    profile,         \* SpecConfidence: the dict given to calculate_data_confidence
    confidence       \* SpecConfidence: the dict it returned

vars == <<series, spc, outliers, skewness, variability, skew_val,
          df, pc, stats_results, columns_profile, alerts, report,
          profile, confidence>>

seriesVars == <<series, spc, outliers, skewness, variability, skew_val>>
tableVars == <<df, pc, stats_results, columns_profile, alerts, report>>
confVars == <<profile, confidence>>

----------------------------------------------------------------------------
(* Bounds of the model *)

MaxLen == 5     \* longest column of SpecSeries
MaxVal == 2     \* numeric cells range over -1 .. MaxVal
MaxSkew == 150  \* SpecSkewValue: skew_val ranges over -MaxSkew .. MaxSkew hundredths
MaxProfileCols == 2  \* SpecConfidence: total_columns and len(columns) range over 0 .. this
RowScale == 5   \* SpecConfidence: total_rows reaches RowScale * MediumSample
MaxRows == 5    \* Spec: a table has 0 .. MaxRows rows
MaxCols == 3    \* Spec: a table has 0 .. MaxCols columns

----------------------------------------------------------------------------
(* Thresholds of calculate_data_confidence *)

SmallSample == 50         \* if stats['sample_size'] < 50
MediumSample == 200       \* elif stats['sample_size'] < 200
CompletenessFloor == 80   \* if stats['completeness'] < 80

----------------------------------------------------------------------------
(* Values *)

None == [tag |-> "None", v |-> 0]
NaNVal == [tag |-> "NaN", v |-> 0]
Val(x) == [tag |-> "num", v |-> x]
Pending == [tag |-> "pending"]

NaNCell == [nan |-> TRUE, v |-> 0]
Num(x) == [nan |-> FALSE, v |-> x]

Abs(x) == IF x < 0 THEN -x ELSE x
Sign(x) == IF x < 0 THEN -1 ELSE IF x > 0 THEN 1 ELSE 0

RECURSIVE SumSeq(_)
SumSeq(xs) == IF Len(xs) = 0 THEN 0 ELSE Head(xs) + SumSeq(Tail(xs))

MapSeq(xs, Op(_)) == [i \in 1..Len(xs) |-> Op(xs[i])]

Square(x) == x * x
Cube(x) == x * x * x

RECURSIVE Insert(_, _)
Insert(x, xs) ==
    IF Len(xs) = 0 THEN <<x>>
    ELSE IF x <= Head(xs) THEN <<x>> \o xs
    ELSE <<Head(xs)>> \o Insert(x, Tail(xs))

RECURSIVE SortValues(_)
SortValues(xs) == IF Len(xs) = 0 THEN <<>> ELSE Insert(Head(xs), SortValues(Tail(xs)))

(* a/b <= c/d for a, c >= 0 and b, d > 0, by continued fractions (no products) *)
RECURSIVE FracLeq(_, _, _, _)
FracLeq(a, b, c, d) ==
    LET qa == a \div b
        qc == c \div d
        ra == a % b
        rc == c % d
    IN  IF qa # qc THEN qa < qc
        ELSE IF ra = 0 THEN TRUE
        ELSE IF rc = 0 THEN FALSE
        ELSE FracLeq(d, rc, b, ra)

FracLt(a, b, c, d) == ~FracLeq(c, d, a, b)

(* round(num / den) to the nearest integer, ties to even: Python's round() *)
RoundHalfEven(num, den) ==
    LET q == num \div den
        r == num % den
    IN  IF 2 * r < den THEN q
        ELSE IF 2 * r > den THEN q + 1
        ELSE IF q % 2 = 0 THEN q ELSE q + 1

(* the largest m in lo..hi with (m / 200)^2 <= num / den *)
RECURSIVE FloorSqrt200(_, _, _, _)
FloorSqrt200(num, den, lo, hi) ==
    IF lo >= hi THEN lo
    ELSE LET mid == (lo + hi + 1) \div 2
         IN  IF FracLeq(mid * mid, 40000, num, den)
             THEN FloorSqrt200(num, den, mid, hi)
             ELSE FloorSqrt200(num, den, lo, mid - 1)

(* round(sqrt(num / den), 2) in hundredths, for num >= 0 and den > 0 *)
RoundSqrt100(num, den) ==
    LET m == FloorSqrt200(num, den, 0, 200 * (num \div den + 1))
        tie == FracLeq(num, den, m * m, 40000)
    IN  IF m % 2 = 0 THEN m \div 2
        ELSE IF tie /\ ((m - 1) \div 2) % 2 = 0 THEN (m - 1) \div 2
        ELSE (m + 1) \div 2

----------------------------------------------------------------------------
(* pandas primitives the engine calls *)

(* pd.api.types.is_numeric_dtype: also true of bool and of nullable Int64 *)
IsNumericDtype(dtype) == dtype \in {"int64", "float64", "Int64", "bool"}
(* select_dtypes(include=[np.number]): not bool *)
IsNumberDtype(dtype) == dtype \in {"int64", "float64", "Int64"}
IsEmpty(s) == Len(s.vals) = 0
IsMissing(c) == c.nan
NotMissing(c) == ~c.nan
CellValue(c) == c.v

(* the non-missing values of a column; every pandas reduction skips NaN *)
DropNa(vals) == MapSeq(SelectSeq(vals, NotMissing), CellValue)

(* 4 * series.quantile(k / 4), linear interpolation between order statistics *)
Quantile4(sorted, k) ==
    LET pos == k * (Len(sorted) - 1)
        lo == pos \div 4
        fr == pos % 4
    IN  IF fr = 0 THEN 4 * sorted[lo + 1]
        ELSE 4 * sorted[lo + 1] + fr * (sorted[lo + 2] - sorted[lo + 1])

(* n * sum(x^2) - sum(x)^2  =  n * sum((x - mean)^2) *)
Dev2(xs) == Len(xs) * SumSeq(MapSeq(xs, Square)) - Square(SumSeq(xs))

(* n^2 sum(x^3) - 3 n sum(x) sum(x^2) + 2 sum(x)^3  =  n^2 * sum((x - mean)^3) *)
Dev3(xs) ==
    LET n == Len(xs)
        S == SumSeq(xs)
    IN  n * n * SumSeq(MapSeq(xs, Cube)) - 3 * n * S * SumSeq(MapSeq(xs, Square))
        + 2 * S * S * S

(* series.skew(): NaN below 3 values, 0 for a constant column, otherwise   *)
(* sgn * sqrt(num / den) = n sqrt(n-1) / (n-2) * m3 / m2^1.5               *)
Skew(xs) ==
    LET n == Len(xs)
        A == Dev2(xs)
        B == Dev3(xs)
    IN  IF n < 3 THEN [nan |-> TRUE, sgn |-> 0, num |-> 0, den |-> 1]
        ELSE IF A = 0 THEN [nan |-> FALSE, sgn |-> 0, num |-> 0, den |-> 1]
        ELSE [nan |-> FALSE, sgn |-> Sign(B),
              num |-> n * (n - 1) * B * B, den |-> (n - 2) * (n - 2) * A * A * A]

(* skew > p/q and skew < -p/q, for p, q > 0 *)
SkewAbove(sk, p, q) == sk.sgn = 1 /\ FracLt(p * p, q * q, sk.num, sk.den)
SkewBelowMinus(sk, p, q) == sk.sgn = -1 /\ FracLt(p * p, q * q, sk.num, sk.den)

(* series.mean(): NaN when nothing is left after skipping NaN *)
MeanIsNaN(xs) == Len(xs) = 0
(* a mean taken as the plain sum, which is 0 when nothing is left *)
MeanIsZero_NoNaN(xs) == SumSeq(xs) = 0
MeanIsZero(xs) == Len(xs) > 0 /\ SumSeq(xs) = 0
(* series.std(), ddof = 1: NaN below 2 values; std^2 = Dev2 / (n (n-1)) *)
StdIsNaN(xs) == Len(xs) < 2

----------------------------------------------------------------------------
(* statistical_engine.py *)

(* line 22: the denominator of the outlier percentage *)
OutlierDenominator(s) == Len(s.vals)

detect_outliers_iqr(s) ==
    IF IsEmpty(s) \/ ~IsNumericDtype(s.dtype)
    THEN [count |-> 0, percentage |-> 0, lower_bound |-> None, upper_bound |-> None]
    ELSE LET xs == SortValues(DropNa(s.vals)) IN
         IF Len(xs) = 0
         THEN \* the quartiles are NaN, every comparison with them is False
              [count |-> 0,
               percentage |-> RoundHalfEven(0, OutlierDenominator(s)),
               lower_bound |-> NaNVal, upper_bound |-> NaNVal]
         ELSE LET Q1 == Quantile4(xs, 1)
                  Q3 == Quantile4(xs, 3)
                  IQR == Q3 - Q1
                  lower8 == 2 * Q1 - 3 * IQR
                  upper8 == 2 * Q3 + 3 * IQR
                  count == Cardinality({i \in 1..Len(xs) :
                                          8 * xs[i] < lower8 \/ 8 * xs[i] > upper8})
              IN  [count |-> count,
                   percentage |-> RoundHalfEven(count * 10000, OutlierDenominator(s)),
                   lower_bound |-> Val(lower8), upper_bound |-> Val(upper8)]

(* the cascade with its first test inclusive: skew_val >= 1 *)
SkewClassification_Inclusive(sk) ==
    IF sk.sgn = 1 /\ FracLeq(1, 1, sk.num, sk.den) THEN "Highly Right-Skewed (Long Tail)"
    ELSE IF SkewAbove(sk, 1, 2) THEN "Moderately Right-Skewed"
    ELSE IF SkewBelowMinus(sk, 1, 1) THEN "Highly Left-Skewed"
    ELSE IF SkewBelowMinus(sk, 1, 2) THEN "Moderately Left-Skewed"
    ELSE "Symmetric"

(* lines 45-53: the cascade over a defined skew_val *)
SkewClassification(sk) ==
    IF SkewAbove(sk, 1, 1) THEN "Highly Right-Skewed (Long Tail)"
    ELSE IF SkewAbove(sk, 1, 2) THEN "Moderately Right-Skewed"
    ELSE IF SkewBelowMinus(sk, 1, 1) THEN "Highly Left-Skewed"
    ELSE IF SkewBelowMinus(sk, 1, 2) THEN "Moderately Left-Skewed"
    ELSE "Symmetric"

(* lines 42-55: from skew_val to the returned dict *)
ClassifySkewValue(sk) ==
    IF sk.nan
    THEN [value |-> None, classification |-> "Unknown"]
    ELSE [value |-> Val(sk.sgn * RoundSqrt100(sk.num, sk.den)),
          classification |-> SkewClassification(sk)]

analyze_skewness(s) ==
    IF IsEmpty(s) \/ ~IsNumericDtype(s.dtype)
    THEN [value |-> None, classification |-> "Unknown"]
    ELSE ClassifySkewValue(Skew(DropNa(s.vals)))

(* lines 73-77: the cascade over cv = std_dev / abs(mean_val); a NaN cv    *)
(* fails both comparisons.  cv^2 = n Dev2 / ((n-1) sum^2)                  *)
VariabilityClassification(xs) ==
    LET n == Len(xs)
        S == SumSeq(xs)
    IN  IF MeanIsNaN(xs) \/ StdIsNaN(xs) THEN "Moderate Variability"
        ELSE IF FracLt(n * Dev2(xs), (n - 1) * S * S, 1, 100)
             THEN "Low Variability (Stable)"
        ELSE IF FracLt(1, 1, n * Dev2(xs), (n - 1) * S * S)
             THEN "High Variability (Volatile)"
        ELSE "Moderate Variability"

(* round(std_dev, 2): round() of a NaN is NaN *)
StdDevRounded(xs) ==
    IF StdIsNaN(xs) THEN NaNVal
    ELSE Val(RoundSqrt100(Dev2(xs), Len(xs) * (Len(xs) - 1)))

(* round(cv, 2) on the path where mean_val is not 0 *)
CvRounded(xs) ==
    IF MeanIsNaN(xs) \/ StdIsNaN(xs) THEN NaNVal
    ELSE Val(RoundSqrt100(Len(xs) * Dev2(xs), (Len(xs) - 1) * Square(SumSeq(xs))))

analyze_variability(s) ==
    IF IsEmpty(s) \/ ~IsNumericDtype(s.dtype)
    THEN [std_dev |-> None, cv |-> None, classification |-> "Unknown"]
    ELSE LET xs == DropNa(s.vals) IN
         IF MeanIsZero(xs)
         THEN [std_dev |-> StdDevRounded(xs), cv |-> None,
               classification |-> "Unknown (Mean is 0)"]
         ELSE [std_dev |-> StdDevRounded(xs), cv |-> CvRounded(xs),
               classification |-> VariabilityClassification(xs)]

(* DataFrame.corr(), Pearson over the rows where both cells are present:  *)
(* r = sgn * sqrt(num / den); NaN below 2 such rows or with a constant side *)
PairRows(x, y) == {i \in 1..Len(x.vals) : ~x.vals[i].nan /\ ~y.vals[i].nan}

RECURSIVE SumOver(_, _, _)
SumOver(I, f, g) ==
    IF I = {} THEN 0
    ELSE LET i == CHOOSE j \in I : TRUE
         IN  f[i].v * g[i].v + SumOver(I \ {i}, f, g)

Ones(x) == [i \in 1..Len(x.vals) |-> Num(1)]

Corr(x, y) ==
    LET I == PairRows(x, y)
        n == Cardinality(I)
        Sx == SumOver(I, x.vals, Ones(x))
        Sy == SumOver(I, y.vals, Ones(y))
        N == n * SumOver(I, x.vals, y.vals) - Sx * Sy
        Dx == n * SumOver(I, x.vals, x.vals) - Sx * Sx
        Dy == n * SumOver(I, y.vals, y.vals) - Sy * Sy
    IN  IF n < 2 \/ Dx = 0 \/ Dy = 0
        THEN [nan |-> TRUE, sgn |-> 0, num |-> 0, den |-> 1]
        ELSE [nan |-> FALSE, sgn |-> Sign(N), num |-> N * N, den |-> Dx * Dy]

(* abs(r_value) > p/q; False when r_value is NaN *)
AbsCorrAbove(r, p, q) == ~r.nan /\ FracLt(p * p, q * q, r.num, r.den)

(* the loops over the upper triangle: for j in range(i + 1, len(columns)) *)
RECURSIVE LoopPairs_Upper(_, _, _)
LoopPairs_Upper(i, j, k) ==
    IF i > k THEN <<>>
    ELSE IF j > k THEN LoopPairs_Upper(i + 1, i + 2, k)
    ELSE IF j <= i THEN LoopPairs_Upper(i, i + 1, k)
    ELSE <<[i |-> i, j |-> j]>> \o LoopPairs_Upper(i, j + 1, k)

(* the index pairs of lines 99-100 in loop order, with j < bound(i) *)
RECURSIVE LoopPairs(_, _, _)
LoopPairs(i, j, k) ==
    IF i > k THEN <<>>
    ELSE IF j >= i THEN LoopPairs(i + 1, 1, k)
    ELSE <<[i |-> i, j |-> j]>> \o LoopPairs(i, j + 1, k)

(* the same loops with the inner one running to i inclusive *)
RECURSIVE LoopPairsInclusive(_, _, _)
LoopPairsInclusive(i, j, k) ==
    IF i > k THEN <<>>
    ELSE IF j > i THEN LoopPairsInclusive(i + 1, 1, k)
    ELSE <<[i |-> i, j |-> j]>> \o LoopPairsInclusive(i, j + 1, k)

IsNumberColumn(c) == IsNumberDtype(c.dtype)
SelectNumber(d) == SelectSeq(d.cols, IsNumberColumn)

(* lines 101-112: the finding of one cell of the matrix, <<>> when weak *)
Finding(numeric, pr) ==
    LET r == Corr(numeric[pr.i], numeric[pr.j])
    IN  IF AbsCorrAbove(r, 7, 10)
        THEN <<[col_1 |-> numeric[pr.i].name,
                col_2 |-> numeric[pr.j].name,
                correlation |-> r.sgn * RoundSqrt100(r.num, r.den),
                strength |-> IF AbsCorrAbove(r, 9, 10) THEN "Very Strong" ELSE "Strong"]>>
        ELSE <<>>

RECURSIVE Findings(_, _)
Findings(numeric, pairs) ==
    IF Len(pairs) = 0 THEN <<>>
    ELSE Finding(numeric, Head(pairs)) \o Findings(numeric, Tail(pairs))

(* compute_correlations with the inner loop as range(i + 1) *)
compute_correlations_WithDiagonal(d) ==
    LET numeric == SelectNumber(d)
    IN  IF Len(numeric) < 2 THEN <<>>
        ELSE Findings(numeric, LoopPairsInclusive(1, 1, Len(numeric)))

compute_correlations(d) ==
    LET numeric == SelectNumber(d)
    IN  IF Len(numeric) < 2 THEN <<>>
        ELSE Findings(numeric, LoopPairs(1, 1, Len(numeric)))

(* lines 129-133: the bundle of one numeric column *)
Diagnostics(s) ==
    [outliers |-> detect_outliers_iqr(s),
     skewness |-> analyze_skewness(s),
     variability |-> analyze_variability(s)]

(* A nullable Int64 column with no value left: its quartiles are pd.NA and *)
(* float(lower_bound) on line 27 raises TypeError.                         *)
DiagnosticsRaise(s) ==
    /\ s.dtype = "Int64"
    /\ ~IsEmpty(s)
    /\ Len(DropNa(s.vals)) = 0

ColumnNamed(d, name) == CHOOSE c \in {d.cols[i] : i \in 1..Len(d.cols)} : c.name = name
NumberNames(d) == {SelectNumber(d)[i].name : i \in 1..Len(SelectNumber(d))}

(* lines 125-133: no handler surrounds the loop, so one raising column     *)
(* ends run_statistical_analysis with that exception                       *)
NumericColumnsRaise(d) == \E nm \in NumberNames(d) : DiagnosticsRaise(ColumnNamed(d, nm))
NumericColumns(d) == [nm \in NumberNames(d) |-> Diagnostics(ColumnNamed(d, nm))]

----------------------------------------------------------------------------
(* profiler.py: analyze_dataset *)

OUTLIER_ALERT == "Column '{col}' has {percentage}% outliers."
VOLATILE_ALERT == "Column '{col}' is highly volatile (High Variability)."
CORRELATION_ALERT ==
    "Strong Correlation ({correlation}) between '{col_1}' and '{col_2}'. Check for multicollinearity."

(* an alert string: its template and the values formatted into it *)
Alert(template, col, value, other) ==
    [template |-> template, col |-> col, value |-> value, other |-> other]

(* "High" in classification, over the labels analyze_variability returns *)
ContainsHigh(classification) == classification = "High Variability (Volatile)"

(* lines 59-63 with the two tests in the other order *)
ColumnAlerts_VolatilityFirst(name, stat_data) ==
    (IF ContainsHigh(stat_data.variability.classification)
     THEN <<Alert(VOLATILE_ALERT, name, None, "")>> ELSE <<>>)
    \o
    (IF stat_data.outliers.percentage > 500
     THEN <<Alert(OUTLIER_ALERT, name, Val(stat_data.outliers.percentage), "")>>
     ELSE <<>>)

(* lines 59-63: the alerts of one merged column *)
ColumnAlerts(name, stat_data) ==
    (IF stat_data.outliers.percentage > 500
     THEN <<Alert(OUTLIER_ALERT, name, Val(stat_data.outliers.percentage), "")>>
     ELSE <<>>)
    \o
    (IF ContainsHigh(stat_data.variability.classification)
     THEN <<Alert(VOLATILE_ALERT, name, None, "")>> ELSE <<>>)

(* Python None in a field of type Optional[str] *)
NoLabel == "None"

AllNull(c) == Len(DropNa(c.vals)) = 0
MinOf(xs) == CHOOSE m \in {xs[i] : i \in 1..Len(xs)} : \A i \in 1..Len(xs) : m <= xs[i]
MaxOf(xs) == CHOOSE m \in {xs[i] : i \in 1..Len(xs)} : \A i \in 1..Len(xs) : m >= xs[i]
(* float(df[col].mean()): the exact quotient sum / count *)
MeanOf(xs) == [tag |-> "frac", num |-> SumSeq(xs), den |-> Len(xs)]

(* the dict of one column without the test of line 46: the numeric logic  *)
(* runs for every column                                                   *)
ColStats_Unguarded(c, stats) ==
    LET merged == c.name \in DOMAIN stats.numeric_columns
        xs == DropNa(c.vals)
    IN  [name |-> c.name,
         dtype |-> c.dtype,
         missing_count |-> Len(c.vals) - Len(xs),
         unique_count |-> Cardinality({xs[i] : i \in 1..Len(xs)}),
         mean |-> IF ~AllNull(c) THEN MeanOf(xs) ELSE None,
         min |-> IF ~AllNull(c) THEN Val(MinOf(xs)) ELSE None,
         max |-> IF ~AllNull(c) THEN Val(MaxOf(xs)) ELSE None,
         outliers_count |->
            IF merged THEN stats.numeric_columns[c.name].outliers.count ELSE 0,
         skewness |->
            IF merged THEN stats.numeric_columns[c.name].skewness.classification
            ELSE NoLabel,
         variability_cv |->
            IF merged THEN stats.numeric_columns[c.name].variability.classification
            ELSE NoLabel]

(* lines 26-64: the dict of one column *)
ColStats(c, stats) ==
    LET numeric == IsNumericDtype(c.dtype)
        merged == numeric /\ c.name \in DOMAIN stats.numeric_columns
        xs == DropNa(c.vals)
    IN  [name |-> c.name,
         dtype |-> c.dtype,
         missing_count |-> Len(c.vals) - Len(xs),
         unique_count |-> Cardinality({xs[i] : i \in 1..Len(xs)}),
         mean |-> IF numeric /\ ~AllNull(c) THEN MeanOf(xs) ELSE None,
         min |-> IF numeric /\ ~AllNull(c) THEN Val(MinOf(xs)) ELSE None,
         max |-> IF numeric /\ ~AllNull(c) THEN Val(MaxOf(xs)) ELSE None,
         outliers_count |->
            IF merged THEN stats.numeric_columns[c.name].outliers.count ELSE 0,
         skewness |->
            IF merged THEN stats.numeric_columns[c.name].skewness.classification
            ELSE NoLabel,
         variability_cv |->
            IF merged THEN stats.numeric_columns[c.name].variability.classification
            ELSE NoLabel]

(* lines 58-63: what one column adds to alerts *)
AlertsOfColumn(c, stats) ==
    IF IsNumericDtype(c.dtype) /\ c.name \in DOMAIN stats.numeric_columns
    THEN ColumnAlerts(c.name, stats.numeric_columns[c.name])
    ELSE <<>>

(* line 66 indented one level deeper, inside the numeric branch *)
AppendProfile_NumericOnly(profiles, c, stats) ==
    IF IsNumericDtype(c.dtype) THEN Append(profiles, ColStats(c, stats)) ELSE profiles

(* line 66: columns_profile.append of the ColumnProfile *)
AppendProfile(profiles, c, stats) == Append(profiles, ColStats(c, stats))

(* lines 25-66: the loop over df.columns *)
RECURSIVE LoopColumns(_, _, _, _)
LoopColumns(cols, stats, profiles, als) ==
    IF Len(cols) = 0 THEN [columns_profile |-> profiles, alerts |-> als]
    ELSE LoopColumns(Tail(cols), stats,
                     AppendProfile(profiles, Head(cols), stats),
                     als \o AlertsOfColumn(Head(cols), stats))

(* lines 69-70 *)
CorrelationAlert(corr) ==
    Alert(CORRELATION_ALERT, corr.col_1, Val(corr.correlation), corr.col_2)
CorrelationAlerts(correlations) == MapSeq(correlations, CorrelationAlert)

(* line 15: rows equal to an earlier row; duplicated() takes NaN equal to NaN *)
RowOf(d, i) == [k \in 1..Len(d.cols) |-> d.cols[k].vals[i]]
DuplicateRows(d) ==
    Cardinality({i \in 1..d.rows : \E j \in 1..(i - 1) : RowOf(d, j) = RowOf(d, i)})

(* lines 72-78; the memory estimate of line 14 is left out *)
Summary(d) ==
    [total_rows |-> d.rows,
     total_columns |-> Len(d.cols),
     duplicate_rows |-> DuplicateRows(d)]

----------------------------------------------------------------------------
(* SpecSeries: one column through the three detectors, in the order of     *)
(* lines 130-132 of run_statistical_analysis                               *)

RECURSIVE SeqsOf(_, _)
SeqsOf(S, n) ==
    IF n = 0 THEN {<<>>}
    ELSE {<<x>> \o t : x \in S, t \in SeqsOf(S, n - 1)}

NumericCells == {NaNCell} \cup {Num(x) : x \in -1..MaxVal}
TextCells == {NaNCell, Num(0)}

HasNaN(vals) == \E i \in 1..Len(vals) : vals[i].nan

(* read_csv types a column without a missing cell int64, with one float64 *)
NumericSeries(n) ==
    {[dtype |-> IF HasNaN(vs) THEN "float64" ELSE "int64", vals |-> vs] :
        vs \in SeqsOf(NumericCells, n)}
TextSeries(n) == {[dtype |-> "object", vals |-> vs] : vs \in SeqsOf(TextCells, n)}

IdleSeries == [dtype |-> "object", vals |-> <<>>]
IdleTable ==
    /\ df = <<>>
    /\ pc = "idle"
    /\ stats_results = Pending
    /\ columns_profile = <<>>
    /\ alerts = <<>>
    /\ report = Pending
IdleConfidence ==
    /\ profile = Pending
    /\ confidence = Pending

InitSeries ==
    /\ \E n \in 0..MaxLen : series \in NumericSeries(n) \cup TextSeries(n)
    /\ spc = "outliers"
    /\ outliers = Pending
    /\ skewness = Pending
    /\ variability = Pending
    /\ skew_val = Pending
    /\ IdleTable
    /\ IdleConfidence

DetectOutliers ==
    /\ spc = "outliers"
    /\ outliers' = detect_outliers_iqr(series)
    /\ spc' = "skewness"
    /\ UNCHANGED <<series, skewness, variability, skew_val, tableVars, confVars>>

AnalyzeSkewness ==
    /\ spc = "skewness"
    /\ skewness' = analyze_skewness(series)
    /\ spc' = "variability"
    /\ UNCHANGED <<series, outliers, variability, skew_val, tableVars, confVars>>

AnalyzeVariability ==
    /\ spc = "variability"
    /\ variability' = analyze_variability(series)
    /\ spc' = "done"
    /\ UNCHANGED <<series, outliers, skewness, skew_val, tableVars, confVars>>

NextSeries == DetectOutliers \/ AnalyzeSkewness \/ AnalyzeVariability

SpecSeries == InitSeries /\ [][NextSeries]_vars

----------------------------------------------------------------------------
(* SpecSkewValue: lines 42-55 of analyze_skewness over the float that      *)
(* series.skew() returned, drawn from a grid of hundredths or NaN          *)

SkewNaN == [nan |-> TRUE, sgn |-> 0, num |-> 0, den |-> 1]
SkewOfHundredths(h) == [nan |-> FALSE, sgn |-> Sign(h), num |-> h * h, den |-> 10000]
SkewGrid == {SkewNaN} \cup {SkewOfHundredths(h) : h \in -MaxSkew..MaxSkew}

InitSkewValue ==
    /\ skew_val \in SkewGrid
    /\ series = IdleSeries
    /\ spc = "classify"
    /\ outliers = Pending
    /\ skewness = Pending
    /\ variability = Pending
    /\ IdleTable
    /\ IdleConfidence

ClassifySkew ==
    /\ spc = "classify"
    /\ skewness' = ClassifySkewValue(skew_val)
    /\ spc' = "classified"
    /\ UNCHANGED <<series, outliers, variability, skew_val, tableVars, confVars>>

NextSkewValue == ClassifySkew

SpecSkewValue == InitSkewValue /\ [][NextSkewValue]_vars

----------------------------------------------------------------------------
(* ai_analyst.py: calculate_data_confidence *)

SAMPLE_WARNING == "Sample size is too small for statistical significance."
COMPLETENESS_WARNING == "Data is only {completeness}% complete."

(* a warning string: its template and the value formatted into it *)
Warning(template, arg) == [template |-> template, arg |-> arg]

(* lines 30-31 *)
TotalCells(p) == p.summary.total_rows * p.summary.total_columns
MissingCount(c) == c.missing_count
TotalMissing(p) == SumSeq(MapSeq(p.columns, MissingCount))

(* lines 33-36: round(x, 1) of the float ((cells - missing) / cells) * 100, *)
(* in tenths.  Where the exact quotient lies halfway between two tenths    *)
(* the float is not that quotient, and round() may fall to either side.    *)
CompletenessValues(p) ==
    IF TotalCells(p) > 0
    THEN LET num == (TotalCells(p) - TotalMissing(p)) * 1000
             den == TotalCells(p)
         IN  IF 2 * (num % den) = den
             THEN {num \div den, num \div den + 1}
             ELSE {RoundHalfEven(num, den)}
    ELSE {0}

(* Rule A with its first test inclusive: sample_size <= 50 *)
SampleSizeRule_Inclusive(sample_size) ==
    IF sample_size <= SmallSample
    THEN [score |-> "LOW (Insufficient Data)",
          warnings |-> <<Warning(SAMPLE_WARNING, None)>>]
    ELSE IF sample_size < MediumSample
    THEN [score |-> "MEDIUM", warnings |-> <<>>]
    ELSE [score |-> "HIGH", warnings |-> <<>>]

(* lines 40-46, Rule A: Sample Size *)
SampleSizeRule(sample_size) ==
    IF sample_size < SmallSample
    THEN [score |-> "LOW (Insufficient Data)",
          warnings |-> <<Warning(SAMPLE_WARNING, None)>>]
    ELSE IF sample_size < MediumSample
    THEN [score |-> "MEDIUM", warnings |-> <<>>]
    ELSE [score |-> "HIGH", warnings |-> <<>>]

(* Rule B applied before Rule A, which then overwrites its score *)
calculate_data_confidence_RuleBFirst(p, completeness) ==
    LET a == SampleSizeRule(p.summary.total_rows)
        b == IF completeness < 10 * CompletenessFloor
             THEN <<Warning(COMPLETENESS_WARNING, Val(completeness))>>
             ELSE <<>>
    IN  [score |-> a.score,
         completeness |-> completeness,
         sample_size |-> p.summary.total_rows,
         warnings |-> b \o a.warnings]

(* lines 18-53, with the rounded completeness of lines 33-36 handed in *)
calculate_data_confidence(p, completeness) ==
    LET a == SampleSizeRule(p.summary.total_rows)
    IN  IF completeness < 10 * CompletenessFloor
        THEN [score |-> "LOW (Poor Data Quality)",
              completeness |-> completeness,
              sample_size |-> p.summary.total_rows,
              warnings |-> Append(a.warnings,
                                  Warning(COMPLETENESS_WARNING, Val(completeness)))]
        ELSE [score |-> a.score,
              completeness |-> completeness,
              sample_size |-> p.summary.total_rows,
              warnings |-> a.warnings]

----------------------------------------------------------------------------
(* SpecConfidence: calculate_data_confidence over profile dicts.  The dict *)
(* comes from a finished report or from the body of a /chat request, so    *)
(* total_rows, total_columns and the missing counts are independent.       *)

SampleSizes ==
    {0, 1, 30, SmallSample - 1, SmallSample, MediumSample - 1}
        \cup {k * MediumSample : k \in 1..RowScale}

MissingCounts(rows) ==
    {0, rows \div 20, rows \div 5, rows \div 5 + 1, (2 * rows) \div 5, rows}

(* the profiles of r rows whose columns list has n entries *)
Profiles(r, n) ==
    {[summary |-> [total_rows |-> r, total_columns |-> c], columns |-> cols] :
        c \in 0..MaxProfileCols,
        cols \in SeqsOf({[missing_count |-> m] : m \in MissingCounts(r)}, n)}

IdleSeriesVars ==
    /\ series = IdleSeries
    /\ spc = "idle"
    /\ outliers = Pending
    /\ skewness = Pending
    /\ variability = Pending
    /\ skew_val = Pending

InitConfidence ==
    /\ \E r \in SampleSizes, n \in 0..MaxProfileCols : profile \in Profiles(r, n)
    /\ confidence = Pending
    /\ IdleSeriesVars
    /\ IdleTable

CalculateDataConfidence ==
    /\ confidence = Pending
    /\ \E c \in CompletenessValues(profile) :
          confidence' = calculate_data_confidence(profile, c)
    /\ UNCHANGED <<profile, seriesVars, tableVars>>

NextConfidence == CalculateDataConfidence

SpecConfidence == InitConfidence /\ [][NextConfidence]_vars

----------------------------------------------------------------------------
(* Spec: analyze_dataset over tables.  A table has up to MaxCols columns   *)
(* of one length, each drawn from a catalogue of column shapes.            *)

COLUMN_NAMES == <<"a", "b", "c", "d", "e", "f">>

Cycle(base, n) == [i \in 1..n |-> Num(base[((i - 1) % Len(base)) + 1])]

Shapes(n) ==
    { [dtype |-> "object", vals |-> [i \in 1..n |-> Num(0)]],         \* text
      [dtype |-> "bool", vals |-> Cycle(<<1, 0>>, n)],                \* True/False
      [dtype |-> "float64", vals |-> [i \in 1..n |-> NaNCell]],       \* all missing
      [dtype |-> "Int64", vals |-> [i \in 1..n |-> NaNCell]],         \* nullable, all <NA>
      [dtype |-> "int64", vals |-> [i \in 1..n |-> Num(0)]],          \* constant, mean 0
      [dtype |-> "int64", vals |-> [i \in 1..n |-> Num(i)]],          \* rising
      [dtype |-> "int64", vals |-> [i \in 1..n |-> Num(n + 1 - i)]],  \* falling
      [dtype |-> "int64",
       vals |-> [i \in 1..n |-> IF i = n THEN Num(1) ELSE Num(0)]],   \* one spike
      [dtype |-> IF n > 0 THEN "float64" ELSE "int64",
       vals |-> [i \in 1..n |-> IF i = 1 THEN NaNCell ELSE Num(i)]],  \* rising, one hole
      [dtype |-> "int64", vals |-> Cycle(<<0, 1, 3, 4, 2>>, n)],      \* r = 0.7 with rising
      [dtype |-> "int64", vals |-> Cycle(<<0, 1, 2, 4, 3>>, n)] }     \* r = 0.9 with rising

Named(shapes) ==
    [i \in 1..Len(shapes) |->
        [name |-> COLUMN_NAMES[i], dtype |-> shapes[i].dtype, vals |-> shapes[i].vals]]

(* the tables of n rows and k columns; a table without columns has no rows *)
Tables(n, k) == {[rows |-> n, cols |-> Named(shapes)] : shapes \in SeqsOf(Shapes(n), k)}

(* the row counts: no row, one row, two rows (the fewest with a std-dev)   *)
(* and the two largest                                                     *)
RowCounts == (0..2) \cup ((MaxRows - 1)..MaxRows)

Init ==
    /\ \E n \in RowCounts, k \in 0..MaxCols :
          /\ k = 0 => n = 0
          /\ df \in Tables(n, k)
    /\ pc = "correlations"
    /\ stats_results = Pending
    /\ columns_profile = <<>>
    /\ alerts = <<>>
    /\ report = Pending
    /\ IdleSeriesVars
    /\ IdleConfidence

(* statistical_engine.py line 122, reached from profiler.py line 22 *)
ComputeCorrelations ==
    /\ pc = "correlations"
    /\ stats_results' = [correlations |-> compute_correlations(df),
                         numeric_columns |-> <<>>]
    /\ pc' = "diagnose"
    /\ UNCHANGED <<df, columns_profile, alerts, report, seriesVars, confVars>>

(* statistical_engine.py lines 125-135; an exception leaves analyze_dataset *)
DiagnoseColumns ==
    /\ pc = "diagnose"
    /\ IF NumericColumnsRaise(df)
       THEN /\ pc' = "raised"
            /\ UNCHANGED stats_results
       ELSE /\ pc' = "columns"
            /\ stats_results' = [stats_results EXCEPT !.numeric_columns = NumericColumns(df)]
    /\ UNCHANGED <<df, columns_profile, alerts, report, seriesVars, confVars>>

(* profiler.py lines 25-66 *)
SummarizeColumns ==
    /\ pc = "columns"
    /\ LET done == LoopColumns(df.cols, stats_results, columns_profile, alerts)
       IN  /\ columns_profile' = done.columns_profile
           /\ alerts' = done.alerts
    /\ pc' = "assemble"
    /\ UNCHANGED <<df, stats_results, report, seriesVars, confVars>>

(* profiler.py lines 68-86 *)
AssembleReport ==
    /\ pc = "assemble"
    /\ alerts' = alerts \o CorrelationAlerts(stats_results.correlations)
    /\ report' = [summary |-> Summary(df),
                  columns |-> columns_profile,
                  alerts |-> alerts',
                  ai_analysis |-> None]
    /\ pc' = "done"
    /\ UNCHANGED <<df, stats_results, columns_profile, seriesVars, confVars>>

Next == ComputeCorrelations \/ DiagnoseColumns \/ SummarizeColumns \/ AssembleReport

Spec == Init /\ [][Next]_vars

----------------------------------------------------------------------------
(* Properties of calculate_data_confidence, checked under SpecConfidence *)

Scored == confidence # Pending

(* C1: the score is "HIGH" iff total_rows >= 200 and the computed          *)
(* completeness >= 80; a computed completeness < 80 gives                  *)
(* "LOW (Poor Data Quality)" whatever the sample size.                     *)
C1_HighIffLargeAndComplete ==
    Scored =>
        /\ confidence.sample_size = profile.summary.total_rows
        /\ confidence.completeness \in CompletenessValues(profile)
        /\ (confidence.score = "HIGH") <=>
              (profile.summary.total_rows >= 200 /\ confidence.completeness >= 800)
        /\ confidence.completeness < 800 => confidence.score = "LOW (Poor Data Quality)"

(* Scenario E: many rows and a completeness of 60% *)
C1_Witness ==
    /\ Scored
    /\ profile.summary.total_rows >= 200
    /\ confidence.completeness = 600
    /\ confidence.score = "LOW (Poor Data Quality)"

(* C10: the significance warning is present iff total_rows < 50, the       *)
(* completeness warning iff completeness < 80, the significance warning    *)
(* first when both are; with completeness < 80 the label is                *)
(* "LOW (Poor Data Quality)", otherwise "LOW (Insufficient Data)" below 50 *)
(* rows and "MEDIUM" from 50 to 199 rows.                                  *)
C10_WarningsAndLabels ==
    Scored =>
        LET small == profile.summary.total_rows < 50
            poor == confidence.completeness < 800
            w1 == Warning(SAMPLE_WARNING, None)
            w2 == Warning(COMPLETENESS_WARNING, Val(confidence.completeness))
        IN  /\ confidence.warnings =
                  (IF small THEN <<w1>> ELSE <<>>) \o (IF poor THEN <<w2>> ELSE <<>>)
            /\ (small /\ poor) => confidence.score = "LOW (Poor Data Quality)"
            /\ (small /\ ~poor) => confidence.score = "LOW (Insufficient Data)"
            /\ (~small /\ profile.summary.total_rows < 200 /\ ~poor)
                  => confidence.score = "MEDIUM"

(* few rows and poor completeness: both warnings, sample size first *)
C10_Witness ==
    /\ Scored
    /\ profile.summary.total_rows < 50
    /\ profile.summary.total_rows > 0
    /\ confidence.completeness < 800
    /\ Len(confidence.warnings) = 2
    /\ confidence.warnings[1].template = SAMPLE_WARNING
    /\ confidence.score = "LOW (Poor Data Quality)"

----------------------------------------------------------------------------
(* Properties of the three detectors, checked under SpecSeries *)

NumericValues(s) == DropNa(s.vals)
ColumnMeanIsZero(s) == IsNumericDtype(s.dtype) /\ MeanIsZero(NumericValues(s))
VariabilityDone == spc = "done"
OutliersDone == spc \in {"skewness", "variability", "done"}

(* C2, as stated: analyze_variability returns "Unknown (Mean is 0)" iff    *)
(* the column mean is exactly 0, and cv is None in that case and in no     *)
(* other, for every column (empty and non-numeric ones included).          *)
C2_Original ==
    VariabilityDone =>
        /\ (variability.classification = "Unknown (Mean is 0)") <=> ColumnMeanIsZero(series)
        /\ (variability.cv = None) <=> ColumnMeanIsZero(series)

(* C2, amended: the label is "Unknown (Mean is 0)" iff the column is       *)
(* numeric with a mean of exactly 0; cv is None iff the mean is exactly 0  *)
(* or the column is empty or non-numeric (these get the label "Unknown").  *)
C2_Amended ==
    VariabilityDone =>
        /\ (variability.classification = "Unknown (Mean is 0)") <=> ColumnMeanIsZero(series)
        /\ (variability.cv = None) <=>
              \/ ColumnMeanIsZero(series)
              \/ IsEmpty(series)
              \/ ~IsNumericDtype(series.dtype)
        /\ (IsEmpty(series) \/ ~IsNumericDtype(series.dtype))
              => variability.classification = "Unknown"

(* a column with values of both signs whose mean is 0 got the guard's answer *)
C2_Witness ==
    /\ VariabilityDone
    /\ ColumnMeanIsZero(series)
    /\ Dev2(NumericValues(series)) > 0
    /\ variability.cv = None
    /\ variability.std_dev.tag = "num"

(* C3, as stated: the outlier percentage is count / (number of non-missing *)
(* values) x 100, rounded to 2 decimals, also when the column has missing  *)
(* values.                                                                 *)
C3_Claim ==
    (OutliersDone /\ IsNumericDtype(series.dtype) /\ Len(NumericValues(series)) > 0) =>
        outliers.percentage =
            RoundHalfEven(outliers.count * 10000, Len(NumericValues(series)))

(* Properties of lines 42-55, checked under SpecSkewValue *)

(* the skew_val of the state in hundredths; meaningful when it is not NaN *)
SkewHundredths == skew_val.sgn * RoundSqrt100(skew_val.num, skew_val.den)
SkewClassified == spc = "classified"

SkewBucket(h, highRight) ==
    IF h > 100 THEN highRight
    ELSE IF 50 < h /\ h <= 100 THEN "Moderately Right-Skewed"
    ELSE IF h < -100 THEN "Highly Left-Skewed"
    ELSE IF -100 <= h /\ h < -50 THEN "Moderately Left-Skewed"
    ELSE "Symmetric"

(* C7, as stated: skew > 1 gives "Highly Right-Skewed", 0.5 < skew <= 1    *)
(* "Moderately Right-Skewed", skew < -1 "Highly Left-Skewed",              *)
(* -1 <= skew < -0.5 "Moderately Left-Skewed", anything else "Symmetric"   *)
(* (1, 0.5, -0.5, -1 fall in Moderately Right, Symmetric, Symmetric,       *)
(* Moderately Left); an undefined skewness gives "Unknown" and a null      *)
(* value.                                                                  *)
C7_Original ==
    SkewClassified =>
        IF skew_val.nan
        THEN skewness = [value |-> None, classification |-> "Unknown"]
        ELSE skewness.classification = SkewBucket(SkewHundredths, "Highly Right-Skewed")

(* C7, amended: the same thresholds and boundaries, and the label of       *)
(* skew > 1 is "Highly Right-Skewed (Long Tail)".                          *)
C7_Amended ==
    SkewClassified =>
        IF skew_val.nan
        THEN skewness = [value |-> None, classification |-> "Unknown"]
        ELSE /\ skewness.classification =
                    SkewBucket(SkewHundredths, "Highly Right-Skewed (Long Tail)")
             /\ skewness.value = Val(SkewHundredths)

(* the boundary value skew_val = 1 was classified *)
C7_Witness ==
    /\ SkewClassified
    /\ ~skew_val.nan
    /\ SkewHundredths = 100
    /\ skewness.classification = "Moderately Right-Skewed"

----------------------------------------------------------------------------
(* Properties of analyze_dataset and run_statistical_analysis, under Spec *)

Diagnosed == pc \in {"columns", "assemble", "done"}
Correlated == pc # "correlations"
Returned == pc = "done"
Raised == pc = "raised"
Columns == {df.cols[i] : i \in 1..Len(df.cols)}

(* C4, as stated: an all-missing or empty numeric column gets diagnostics  *)
(* whose bounds, skewness value, std-dev and CV are None and whose labels  *)
(* are not substantive ("Unknown"); never "Moderate Variability", never    *)
(* NaN in place of None.                                                   *)
C4_Claim ==
    Diagnosed =>
        \A c \in Columns :
            (IsNumberColumn(c) /\ AllNull(c)) =>
                LET d == stats_results.numeric_columns[c.name]
                IN  /\ d.outliers.lower_bound = None
                    /\ d.outliers.upper_bound = None
                    /\ d.skewness.value = None
                    /\ d.variability.std_dev = None
                    /\ d.variability.cv = None
                    /\ d.skewness.classification = "Unknown"
                    /\ d.variability.classification = "Unknown"

(* C5, as stated: when the diagnostics of a column fail, analyze_dataset   *)
(* still returns a report with one ColumnProfile per column, the failing   *)
(* column carrying the defaults and every other column its diagnostics.    *)
C5_Claim ==
    ((Returned \/ Raised) /\ NumericColumnsRaise(df)) =>
        /\ Returned
        /\ Len(report.columns) = Len(df.cols)
        /\ \A i \in 1..Len(df.cols) :
              IF DiagnosticsRaise(df.cols[i])
              THEN /\ report.columns[i].outliers_count = 0
                   /\ report.columns[i].skewness = NoLabel
                   /\ report.columns[i].variability_cv = NoLabel
              ELSE IsNumberColumn(df.cols[i]) =>
                      report.columns[i].outliers_count =
                          detect_outliers_iqr(df.cols[i]).count

(* C6: the findings hold no pair of a column with itself, no unordered     *)
(* pair twice, only pairs of numeric columns with |r| > 0.7 (r exactly 0.7 *)
(* or undefined is absent), "Very Strong" iff |r| > 0.9 and "Strong"       *)
(* otherwise; fewer than 2 numeric columns give no finding.                *)
C6_Findings ==
    Correlated =>
        LET fs == stats_results.correlations
        IN  /\ \A k \in 1..Len(fs) : fs[k].col_1 # fs[k].col_2
            /\ \A k, l \in 1..Len(fs) :
                  k # l => {fs[k].col_1, fs[k].col_2} # {fs[l].col_1, fs[l].col_2}
            /\ \A k \in 1..Len(fs) :
                  /\ {fs[k].col_1, fs[k].col_2} \subseteq NumberNames(df)
                  /\ LET r == Corr(ColumnNamed(df, fs[k].col_1),
                                   ColumnNamed(df, fs[k].col_2))
                     IN  /\ ~r.nan
                         /\ 100 * r.num > 49 * r.den
                         /\ fs[k].strength =
                               IF 100 * r.num > 81 * r.den THEN "Very Strong" ELSE "Strong"
            /\ Cardinality(NumberNames(df)) < 2 => fs = <<>>

(* three numeric columns: one pair with r exactly 0.7 and no finding, one  *)
(* pair with r exactly 0.9 and the label "Strong"                          *)
C6_Witness ==
    /\ Correlated
    /\ Cardinality(NumberNames(df)) = 3
    /\ \E x, y \in NumberNames(df) :
          LET r == Corr(ColumnNamed(df, x), ColumnNamed(df, y))
          IN  /\ ~r.nan
              /\ 100 * r.num = 49 * r.den
              /\ \A k \in 1..Len(stats_results.correlations) :
                    {stats_results.correlations[k].col_1,
                     stats_results.correlations[k].col_2} # {x, y}
    /\ \E k \in 1..Len(stats_results.correlations) :
          /\ stats_results.correlations[k].correlation = 90
          /\ stats_results.correlations[k].strength = "Strong"

(* the alerts the claim expects of columns i .. n *)
RECURSIVE ExpectedColumnAlerts(_)
ExpectedColumnAlerts(i) ==
    IF i > Len(df.cols) THEN <<>>
    ELSE LET c == df.cols[i]
             d == stats_results.numeric_columns[c.name]
         IN  (IF IsNumberColumn(c) /\ d.outliers.percentage > 500
              THEN <<Alert(OUTLIER_ALERT, c.name, Val(d.outliers.percentage), "")>>
              ELSE <<>>)
             \o
             (IF IsNumberColumn(c) /\ d.variability.classification
                                        = "High Variability (Volatile)"
              THEN <<Alert(VOLATILE_ALERT, c.name, None, "")>>
              ELSE <<>>)
             \o ExpectedColumnAlerts(i + 1)

ExpectedCorrelationAlerts ==
    [k \in 1..Len(stats_results.correlations) |->
        Alert(CORRELATION_ALERT,
              stats_results.correlations[k].col_1,
              Val(stats_results.correlations[k].correlation),
              stats_results.correlations[k].col_2)]

(* C8: the alerts are, column by column in table order, an outlier alert   *)
(* iff the numeric column's outlier percentage > 5.0 and then a volatility *)
(* alert iff its volatility label contains "High"; after all of them one   *)
(* correlation alert per finding, in the order of the findings.            *)
(* Non-numeric columns add nothing.                                        *)
C8_Alerts ==
    Returned => report.alerts = ExpectedColumnAlerts(1) \o ExpectedCorrelationAlerts

(* a column with both alerts, a text column and a correlation alert *)
C8_Witness ==
    /\ Returned
    /\ \E i \in 1..Len(report.alerts) - 1 :
          /\ report.alerts[i].template = OUTLIER_ALERT
          /\ report.alerts[i + 1].template = VOLATILE_ALERT
          /\ report.alerts[i + 1].col = report.alerts[i].col
    /\ \E c \in Columns : c.dtype = "object"
    /\ report.alerts[Len(report.alerts)].template = CORRELATION_ALERT

(* C9: the report has one ColumnProfile per table column, the i-th named   *)
(* after the i-th column, whatever the mix of columns.                     *)
C9_OneProfilePerColumn ==
    Returned =>
        /\ Len(report.columns) = Len(df.cols)
        /\ \A i \in 1..Len(df.cols) : report.columns[i].name = df.cols[i].name

(* a text column, an all-missing column and a column with values *)
C9_Witness ==
    /\ Returned
    /\ Len(report.columns) = 3
    /\ df.rows > 0
    /\ \E c \in Columns : c.dtype = "object"
    /\ \E c \in Columns : c.dtype = "float64" /\ AllNull(c)
    /\ \E c \in Columns : c.dtype = "int64"

----------------------------------------------------------------------------
(* Properties of the division-by-zero guards *)

(* run_statistical_analysis ended with an exception *)
C11_NeverRaises == ~Raised

(* the sentinels of the columns that were diagnosed: a mean of exactly 0   *)
(* gives cv None and "Unknown (Mean is 0)"; no row, or no non-missing      *)
(* value, gives count 0 and percentage 0.0                                 *)
C11_ColumnSentinels ==
    Diagnosed =>
        \A c \in Columns :
            IsNumberColumn(c) =>
                LET d == stats_results.numeric_columns[c.name]
                IN  /\ ColumnMeanIsZero(c) =>
                          /\ d.variability.cv = None
                          /\ d.variability.classification = "Unknown (Mean is 0)"
                    /\ (IsEmpty(c) \/ AllNull(c)) =>
                          /\ d.outliers.count = 0
                          /\ d.outliers.percentage = 0

(* total_rows x total_columns = 0 gives completeness 0 *)
C11_ZeroCellsSentinel ==
    (Scored /\ TotalCells(profile) = 0) => confidence.completeness = 0

(* C11, as stated: none of the three division-by-zero conditions raises;   *)
(* a column whose mean is exactly 0 gives cv None with the label           *)
(* "Unknown (Mean is 0)", a profile with zero total cells gives            *)
(* completeness 0, and a zero-length column or one with no non-missing     *)
(* value gives outlier count 0 and outlier percentage 0.0.                 *)
C11_Claim ==
    /\ C11_NeverRaises
    /\ C11_ColumnSentinels
    /\ C11_ZeroCellsSentinel

----------------------------------------------------------------------------
(* Properties of detect_outliers_iqr, under SpecSeries *)

(* lower_bound <= upper_bound as Python evaluates it on the returned       *)
(* floats: False when either is NaN.  Bounds of None are no bounds.        *)
BoundsOrdered(o) ==
    IF o.lower_bound = None /\ o.upper_bound = None THEN TRUE
    ELSE /\ o.lower_bound.tag = "num"
         /\ o.upper_bound.tag = "num"
         /\ o.lower_bound.v <= o.upper_bound.v

(* the values of s strictly outside the bounds (bounds are held x 8) *)
StrictlyOutside(s, o) ==
    {i \in 1..Len(s.vals) :
        /\ NotMissing(s.vals[i])
        /\ \/ 8 * CellValue(s.vals[i]) < o.lower_bound.v
           \/ 8 * CellValue(s.vals[i]) > o.upper_bound.v}

(* C12, as stated: for every numeric column lower_bound <= upper_bound and *)
(* count <= column length, the count being the number of values strictly   *)
(* below lower_bound or strictly above upper_bound.                        *)
C12_Claim ==
    (OutliersDone /\ IsNumericDtype(series.dtype)) =>
        /\ BoundsOrdered(outliers)
        /\ outliers.count <= Len(series.vals)
        /\ outliers.lower_bound.tag = "num" =>
              outliers.count = Cardinality(StrictlyOutside(series, outliers))

(* the same for the numeric columns that hold a value *)
C12_WithValues ==
    (OutliersDone /\ IsNumericDtype(series.dtype) /\ Len(NumericValues(series)) > 0) =>
        /\ outliers.lower_bound.tag = "num"
        /\ outliers.upper_bound.tag = "num"
        /\ outliers.lower_bound.v <= outliers.upper_bound.v
        /\ outliers.count <= Len(series.vals)
        /\ outliers.count = Cardinality(StrictlyOutside(series, outliers))

----------------------------------------------------------------------------
(* Properties of the text columns, under Spec *)

IsTextColumn(c) == c.dtype = "object"

(* C13: the ColumnProfile of a text column has mean, min and max None,     *)
(* outliers_count 0, skewness and variability_cv unset; no alert names the *)
(* column and no correlation finding holds it.                             *)
C13_TextColumns ==
    /\ Correlated =>
          \A c \in Columns :
              IsTextColumn(c) =>
                  \A k \in 1..Len(stats_results.correlations) :
                      /\ stats_results.correlations[k].col_1 # c.name
                      /\ stats_results.correlations[k].col_2 # c.name
    /\ Returned =>
          \A i \in 1..Len(df.cols) :
              IsTextColumn(df.cols[i]) =>
                  /\ report.columns[i].mean = None
                  /\ report.columns[i].min = None
                  /\ report.columns[i].max = None
                  /\ report.columns[i].outliers_count = 0
                  /\ report.columns[i].skewness = NoLabel
                  /\ report.columns[i].variability_cv = NoLabel
                  /\ \A k \in 1..Len(report.alerts) :
                        /\ report.alerts[k].col # df.cols[i].name
                        /\ report.alerts[k].other # df.cols[i].name

(* a text column with cells, between a column that raised both alerts and  *)
(* a column of a correlation finding                                       *)
C13_Witness ==
    /\ Returned
    /\ df.rows > 0
    /\ Len(df.cols) = 3
    /\ IsTextColumn(df.cols[2])
    /\ \E k \in 1..Len(report.alerts) :
          report.alerts[k].template = OUTLIER_ALERT /\ report.alerts[k].col = df.cols[1].name
    /\ \E k \in 1..Len(stats_results.correlations) :
          stats_results.correlations[k].col_1 = df.cols[3].name

----------------------------------------------------------------------------
(* Properties of the order of compute_correlations, under Spec *)

(* the place of a column in the table *)
Position(name) == CHOOSE i \in 1..Len(df.cols) : df.cols[i].name = name

(* (i1, j1) before (i2, j2), lexicographically *)
LexBefore(i1, j1, i2, j2) == i1 < i2 \/ (i1 = i2 /\ j1 < j2)

(* C14: the findings come in table column order, outer index before inner  *)
(* index over the lower triangle: col_1 is the later column of its pair    *)
(* and col_2 the earlier, the findings are sorted by (place of col_1,      *)
(* place of col_2), and every pair of numeric columns with |r| > 0.7 is    *)
(* there, so the table decides the sequence.                               *)
C14_FindingsInLoopOrder ==
    Correlated =>
        LET fs == stats_results.correlations
        IN  /\ \A k \in 1..Len(fs) : Position(fs[k].col_2) < Position(fs[k].col_1)
            /\ \A k, l \in 1..Len(fs) :
                  k < l => LexBefore(Position(fs[k].col_1), Position(fs[k].col_2),
                                     Position(fs[l].col_1), Position(fs[l].col_2))
            /\ \A x, y \in NumberNames(df) :
                  (/\ Position(y) < Position(x)
                   /\ AbsCorrAbove(Corr(ColumnNamed(df, x), ColumnNamed(df, y)), 7, 10))
                      => \E k \in 1..Len(fs) : fs[k].col_1 = x /\ fs[k].col_2 = y

(* three numeric columns, every pair of them a finding *)
C14_Witness ==
    /\ Correlated
    /\ Len(df.cols) = 3
    /\ Len(stats_results.correlations) = 3
    /\ stats_results.correlations[1].col_1 = df.cols[2].name
    /\ stats_results.correlations[1].col_2 = df.cols[1].name
    /\ stats_results.correlations[2].col_1 = df.cols[3].name
    /\ stats_results.correlations[2].col_2 = df.cols[1].name
    /\ stats_results.correlations[3].col_1 = df.cols[3].name
    /\ stats_results.correlations[3].col_2 = df.cols[2].name

====
